---- MODULE Spec2Model ----
(***************************************************************************)
(* A model of the build-once tree cache (NodeHolder, Nodes.get_node_holder) *)
(* and of the sparse visibility set (Nodes) of                              *)
(* comp_algo_decision_tree/decision_tree_gen/Nodes.py, and of the eager     *)
(* graph view (ElementNode, Elements) of Elements.py.                       *)
(***************************************************************************)
EXTENDS Integers, Sequences, FiniteSets, TLC

\* ------------------------------------------------------------------ bounds
NumThreads == 2
NumKeys == 3
MaxCapacity == 2
MaxProgress == 1
MaxCalls == 4
MaxNodes == 5
MaxSmallNodes == 3
MaxInputLen == 3
MaxTokenLen == 3

\* --------------------------------------------------------------- constants
NoNode == -1
DISPLAY_DEPTH == 3

Threads == 1..NumThreads
Keys == 1..NumKeys

VARIABLES
  \* Nodes.cached: the OrderedDict, oldest entry first, as <<key, holder>> items
  cached,
  \* MAX_CACHED_DECISION_TREES of this run
  capacity,
  \* every NodeHolder ever constructed, by identity (its index)
  holders,
  \* per caller thread: its position and the NodeHolder it got (0: none yet)
  pc, node_holder,
  \* observation: per NodeHolder, its key, the decision_tree calls made on it
  \* and how many of them raised
  key_of, generated, raised,
  \* observation: the keys in the order of their last get_node_holder call,
  \* and the number of get_node_holder calls made
  recency, calls,
  \* node_holder.nodes of a built handle: the decision tree, by node id
  tree,
  \* Nodes.visiblity_state: the array of visible node ids
  visiblity_state,
  \* observation: what the last operation on the visibility array was when it
  \* was expand_all (with its cap and the value returned) or expand_children
  \* followed at once by hide_children of the same node (with the node and the
  \* array before the two)
  last_op,
  \* observation: the operations of a scripted run so far, each with its
  \* argument and the array it left
  history,
  \* Elements.cached for one key: empty, or the Elements instance of the key
  \* (the visibility flag of every node and of every edge, by child id)
  Elements_cached,
  \* per viewer: the visiblity_state of its Nodes instance, and the Elements
  \* instance it got from Elements.get (0: none yet)
  viewers

buildVars == <<cached, capacity, holders, pc, node_holder, key_of,
               generated, raised, recency, calls>>

visVars == <<tree, visiblity_state, last_op>>

viewVars == <<history, Elements_cached, viewers>>

vars == <<buildVars, visVars, viewVars>>

\* ------------------------------------------------------------- NodeHolder

\* set_progress: (i << 32) | total stored in the 8-byte atomic, kept here as
\* its two 32-bit words (high word i, low word total)
set_progress(i, total) == [hi |-> i, lo |-> total]

\* get_progress: x >> 32, x & 0xFFFFFFFF
get_progress(x) == <<x.hi, x.lo>>

\* a constructor that leaves the progress atomic at its zero value
NodeHolder_zero_progress ==
  [ lock |-> FALSE,
    progress |-> set_progress(0, 0),
    initialize_scheduled |-> FALSE,
    initialized_flag |-> FALSE,
    nodes |-> FALSE ]

\* NodeHolder.__init__
NodeHolder ==
  [ lock |-> FALSE,
    progress |-> set_progress(0, 1),
    initialize_scheduled |-> FALSE,
    initialized_flag |-> FALSE,
    nodes |-> FALSE ]

\* a test that forgets to set the bit
bit_test_only(bit) == [ret |-> bit, bit |-> bit]

\* atomics bit_test_set(0): the old bit is returned and the bit is set
bit_test_set(bit) == [ret |-> bit, bit |-> TRUE]

\* an except branch that also marks the handle complete (as a store of the
\* flag in a finally clause would)
initialize_except_marks_complete(h) ==
  [h EXCEPT !.initialize_scheduled = FALSE, !.initialized_flag = TRUE]

\* an except branch that re-raises without giving the claim back
initialize_except_keeps_claim(h) == h

\* _initialize's except branch: the claim is given back before re-raising
initialize_except(h) == [h EXCEPT !.initialize_scheduled = FALSE]

\* ------------------------------------------------------------ OrderedDict

HasKey(c, k) == \E i \in 1..Len(c) : c[i].key = k

IndexOf(c, k) == CHOOSE i \in 1..Len(c) : c[i].key = k

Remove(c, i) == SubSeq(c, 1, i - 1) \o SubSeq(c, i + 1, Len(c))

\* OrderedDict.move_to_end(key)
move_to_end(c, k) ==
  LET i == IndexOf(c, k) IN Append(Remove(c, i), c[i])

\* popitem(last=True): the newest entry goes instead of the oldest
popitem_last(c) == SubSeq(c, 1, Len(c) - 1)

\* OrderedDict.popitem(last=False)
popitem(c) == Tail(c)

\* a lookup that constructs a NodeHolder also for a key that is present
get_node_holder_always_new(c, k, cap, new) ==
  IF HasKey(c, k)
  THEN [cached |-> Append(Remove(c, IndexOf(c, k)), [key |-> k, holder |-> new]),
        ret |-> new, created |-> TRUE]
  ELSE LET c1 == IF Len(c) >= cap THEN popitem(c) ELSE c
       IN  [cached |-> Append(c1, [key |-> k, holder |-> new]),
            ret |-> new, created |-> TRUE]

\* Nodes.get_node_holder under cached_lock: the new table, the holder
\* returned, and whether it was constructed by this call (as holder new)
get_node_holder(c, k, cap, new) ==
  IF HasKey(c, k)
  THEN LET c2 == move_to_end(c, k)
       IN  [cached |-> c2, ret |-> c2[Len(c2)].holder, created |-> FALSE]
  ELSE LET c1 == IF Len(c) >= cap THEN popitem(c) ELSE c
       IN  [cached |-> Append(c1, [key |-> k, holder |-> new]),
            ret |-> new, created |-> TRUE]

\* ------------------------------------------------------------------- Init

Init ==
  /\ cached = <<>>
  /\ capacity \in 1..MaxCapacity
  /\ holders = <<>>
  /\ pc = [t \in Threads |-> "idle"]
  /\ node_holder = [t \in Threads |-> 0]
  /\ key_of = <<>>
  /\ generated = <<>>
  /\ raised = <<>>
  /\ recency = <<>>
  /\ calls = 0
  /\ tree = [n |-> 1, left |-> [i \in {0} |-> NoNode], right |-> [i \in {0} |-> NoNode],
             parent |-> [i \in {0} |-> NoNode]]
  /\ visiblity_state = <<0>>
  /\ last_op = [name |-> "", arg |-> 0, ret |-> FALSE, pre |-> <<>>]
  /\ history = <<>>
  /\ Elements_cached = <<>>
  /\ viewers = <<>>

\* ---------------------------------------------------------------- actions

Touch(r, k) == Append(SelectSeq(r, LAMBDA x : x # k), k)

\* a request: Nodes.get_node_holder(cmp_algorithm_i, N). Keys are
\* interchangeable, so a key never requested before is the least such key.
GetNodeHolder(t, k) ==
  /\ pc[t] = "idle"
  /\ k <= Len(recency) + 1
  /\ LET new == Len(holders) + 1
         r == get_node_holder(cached, k, capacity, new)
     IN  /\ cached' = r.cached
         /\ holders' = IF r.created THEN Append(holders, NodeHolder) ELSE holders
         /\ key_of' = IF r.created THEN Append(key_of, k) ELSE key_of
         /\ generated' = IF r.created THEN Append(generated, 0) ELSE generated
         /\ raised' = IF r.created THEN Append(raised, 0) ELSE raised
         /\ node_holder' = [node_holder EXCEPT ![t] = r.ret]
  /\ recency' = Touch(recency, k)
  /\ calls' = calls + 1
  /\ pc' = [pc EXCEPT ![t] = "claim"]
  /\ UNCHANGED <<capacity, visVars, viewVars>>

Frame == UNCHANGED <<cached, capacity, node_holder, key_of, recency, calls, visVars, viewVars>>

\* what a caller does with the answer of get_and_set_initialize_scheduled:
\* initialize when the bit was clear, wait_until_initialized when it was set
caller_dispatch(was_scheduled) == IF was_scheduled THEN "wait_check" ELSE "init_lock"

\* the caller's first step: NodeHolder.get_and_set_initialize_scheduled
GetAndSetInitializeScheduled(t) ==
  /\ pc[t] = "claim"
  /\ LET h == node_holder[t]
         r == bit_test_set(holders[h].initialize_scheduled)
     IN  /\ holders' = [holders EXCEPT ![h].initialize_scheduled = r.bit]
         /\ pc' = [pc EXCEPT ![t] = caller_dispatch(r.ret)]
  /\ UNCHANGED <<generated, raised>>
  /\ Frame

\* initialize: with self.lock
InitializeLock(t) ==
  /\ pc[t] = "init_lock"
  /\ ~holders[node_holder[t]].lock
  /\ holders' = [holders EXCEPT ![node_holder[t]].lock = TRUE]
  /\ pc' = [pc EXCEPT ![t] = "call_gen"]
  /\ UNCHANGED <<generated, raised>>
  /\ Frame

\* _initialize: decision_tree(cmp_algorithm, N, self.set_progress_and_yield) is called
CallDecisionTree(t) ==
  /\ pc[t] = "call_gen"
  /\ generated' = [generated EXCEPT ![node_holder[t]] = @ + 1]
  /\ pc' = [pc EXCEPT ![t] = "generating"]
  /\ UNCHANGED <<holders, raised>>
  /\ Frame

\* the generator reports: set_progress_and_yield(i, total)
SetProgressAndYield(t) ==
  /\ pc[t] = "generating"
  /\ LET h == node_holder[t]
         i == get_progress(holders[h].progress)[1]
     IN  /\ i < MaxProgress
         /\ holders' = [holders EXCEPT ![h].progress = set_progress(i + 1, MaxProgress)]
  /\ UNCHANGED <<pc, generated, raised>>
  /\ Frame

\* decision_tree returns after its last report: nodes, operation_cnts and
\* leaf_cnt are assigned
DecisionTreeReturns(t) ==
  /\ pc[t] = "generating"
  /\ get_progress(holders[node_holder[t]].progress)[1] = MaxProgress
  /\ holders' = [holders EXCEPT ![node_holder[t]].nodes = TRUE]
  /\ pc' = [pc EXCEPT ![t] = "store_flag"]
  /\ UNCHANGED <<generated, raised>>
  /\ Frame

\* initialize: initialized_flag.store(1, RELEASE)
StoreInitializedFlag(t) ==
  /\ pc[t] = "store_flag"
  /\ holders' = [holders EXCEPT ![node_holder[t]].initialized_flag = TRUE]
  /\ pc' = [pc EXCEPT ![t] = "init_unlock"]
  /\ UNCHANGED <<generated, raised>>
  /\ Frame

\* initialize: the with block ends, initialize returns
InitializeUnlock(t) ==
  /\ pc[t] = "init_unlock"
  /\ holders' = [holders EXCEPT ![node_holder[t]].lock = FALSE]
  /\ pc' = [pc EXCEPT ![t] = "init_done"]
  /\ UNCHANGED <<generated, raised>>
  /\ Frame

\* decision_tree raises: the except branch of _initialize is entered
DecisionTreeRaises(t) ==
  /\ pc[t] = "generating"
  /\ raised' = [raised EXCEPT ![node_holder[t]] = @ + 1]
  /\ pc' = [pc EXCEPT ![t] = "except"]
  /\ UNCHANGED <<holders, generated>>
  /\ Frame

\* _initialize: initialize_scheduled.store(0, RELEASE), then raise e
ResetInitializeScheduled(t) ==
  /\ pc[t] = "except"
  /\ holders' = [holders EXCEPT ![node_holder[t]] = initialize_except(@)]
  /\ pc' = [pc EXCEPT ![t] = "raise_unlock"]
  /\ UNCHANGED <<generated, raised>>
  /\ Frame

\* initialize: the exception leaves the with block and reaches the caller
InitializeRaises(t) ==
  /\ pc[t] = "raise_unlock"
  /\ holders' = [holders EXCEPT ![node_holder[t]].lock = FALSE]
  /\ pc' = [pc EXCEPT ![t] = "init_raised"]
  /\ UNCHANGED <<generated, raised>>
  /\ Frame

\* wait_until_initialized: the complete flag is read
\* (TRUE: return at once, FALSE: go on to the lock)
wait_until_initialized_check(h) == h.initialized_flag

WaitCheck(t) ==
  /\ pc[t] = "wait_check"
  /\ pc' = [pc EXCEPT ![t] =
        IF wait_until_initialized_check(holders[node_holder[t]])
        THEN "wait_done" ELSE "wait_lock"]
  /\ UNCHANGED <<holders, generated, raised>>
  /\ Frame

\* wait_until_initialized: with self.lock
WaitLock(t) ==
  /\ pc[t] = "wait_lock"
  /\ ~holders[node_holder[t]].lock
  /\ holders' = [holders EXCEPT ![node_holder[t]].lock = TRUE]
  /\ pc' = [pc EXCEPT ![t] = "wait_unlock"]
  /\ UNCHANGED <<generated, raised>>
  /\ Frame

\* wait_until_initialized: pass, the with block ends, the call returns
WaitUnlock(t) ==
  /\ pc[t] = "wait_unlock"
  /\ holders' = [holders EXCEPT ![node_holder[t]].lock = FALSE]
  /\ pc' = [pc EXCEPT ![t] = "wait_done"]
  /\ UNCHANGED <<generated, raised>>
  /\ Frame

Next ==
  \E t \in Threads :
    \/ \E k \in Keys : GetNodeHolder(t, k)
    \/ GetAndSetInitializeScheduled(t)
    \/ InitializeLock(t)
    \/ CallDecisionTree(t)
    \/ SetProgressAndYield(t)
    \/ DecisionTreeReturns(t)
    \/ StoreInitializedFlag(t)
    \/ InitializeUnlock(t)
    \/ DecisionTreeRaises(t)
    \/ ResetInitializeScheduled(t)
    \/ InitializeRaises(t)
    \/ WaitCheck(t)
    \/ WaitLock(t)
    \/ WaitUnlock(t)

Spec == Init /\ [][Next]_vars

\* ------------------------------------------------- one caller, many requests

\* the positions in which a caller is back from initialize (returned or
\* raised) or from wait_until_initialized
Returned == {"init_done", "init_raised", "wait_done"}

\* the caller is back from initialize or wait_until_initialized and is free
\* to make its next request
NextRequest(t) ==
  /\ pc[t] \in Returned
  /\ calls < MaxCalls
  /\ pc' = [pc EXCEPT ![t] = "idle"]
  /\ UNCHANGED <<holders, generated, raised>>
  /\ Frame

SeqNext ==
  \/ \E k \in Keys : GetNodeHolder(1, k)
  \/ GetAndSetInitializeScheduled(1)
  \/ InitializeLock(1)
  \/ CallDecisionTree(1)
  \/ SetProgressAndYield(1)
  \/ DecisionTreeReturns(1)
  \/ StoreInitializedFlag(1)
  \/ InitializeUnlock(1)
  \/ WaitCheck(1)
  \/ NextRequest(1)

SeqSpec == Init /\ [][SeqNext]_vars

\* -------------------------------------------------------- DecisionTreeNode

\* the tree of one node, id 0
Leaf == [n |-> 1, left |-> [i \in {0} |-> NoNode], right |-> [i \in {0} |-> NoNode],
         parent |-> [i \in {0} |-> NoNode]]

\* tree T with a new node, id T.n, hung under p on the given side
AddChild(T, p, side) ==
  [ n |-> T.n + 1,
    left |-> [i \in 0..T.n |-> IF i = T.n THEN NoNode
                               ELSE IF i = p /\ side = "left" THEN T.n ELSE T.left[i]],
    right |-> [i \in 0..T.n |-> IF i = T.n THEN NoNode
                                ELSE IF i = p /\ side = "right" THEN T.n ELSE T.right[i]],
    parent |-> [i \in 0..T.n |-> IF i = T.n THEN p ELSE T.parent[i]] ]

Grow(T) ==
  {AddChild(T, p, "left") : p \in {q \in 0..(T.n - 1) : T.left[q] = NoNode}}
  \cup {AddChild(T, p, "right") : p \in {q \in 0..(T.n - 1) : T.right[q] = NoNode}}

RECURSIVE TreesOf(_)
\* every binary tree of n nodes with ids 0..n-1, each id above its parent's
TreesOf(n) == IF n = 1 THEN {Leaf} ELSE UNION {Grow(T) : T \in TreesOf(n - 1)}

AllTrees == UNION {TreesOf(n) : n \in 1..MaxNodes}

\* (node.left, node.right) without the None entries, in that order
Children(T, id) ==
  (IF T.left[id] # NoNode THEN <<T.left[id]>> ELSE <<>>)
  \o (IF T.right[id] # NoNode THEN <<T.right[id]>> ELSE <<>>)

\* --------------------------------------------------------- numpy, sortednp

Range(a) == {a[i] : i \in 1..Len(a)}

RECURSIVE binsearch(_, _, _, _)
\* numpy's binary search, side left: indices are 0-based
binsearch(a, v, min_idx, max_idx) ==
  IF min_idx >= max_idx THEN min_idx
  ELSE LET mid_idx == min_idx + ((max_idx - min_idx) \div 2)
       IN  IF a[mid_idx + 1] < v
           THEN binsearch(a, v, mid_idx + 1, max_idx)
           ELSE binsearch(a, v, min_idx, mid_idx)

\* ndarray.searchsorted(v)
searchsorted(a, v) == binsearch(a, v, 0, Len(a))

RECURSIVE skip(_, _, _)
\* the first position from i on whose value differs from v
skip(a, i, v) == IF i <= Len(a) /\ a[i] = v THEN skip(a, i + 1, v) ELSE i

RECURSIVE merge_from(_, _, _, _, _)
\* sortednp's two-pointer merge with duplicates=DROP: the smaller head is
\* written and its repeats are passed over; equal heads are written once
merge_from(a, b, i, j, out) ==
  IF i > Len(a) /\ j > Len(b) THEN out
  ELSE IF j > Len(b) \/ (i <= Len(a) /\ a[i] < b[j])
       THEN merge_from(a, b, skip(a, i + 1, a[i]), j, Append(out, a[i]))
  ELSE IF i > Len(a) \/ b[j] < a[i]
       THEN merge_from(a, b, i, skip(b, j + 1, b[j]), Append(out, b[j]))
  ELSE merge_from(a, b, skip(a, i + 1, a[i]), skip(b, j + 1, a[i]), Append(out, a[i]))

\* snp.merge(a, b, duplicates=snp.DROP)
merge(a, b) == merge_from(a, b, 1, 1, <<>>)

RECURSIVE delete_from(_, _, _)
delete_from(a, idx, i) ==
  IF i > Len(a) THEN <<>>
  ELSE (IF (i - 1) \in idx THEN <<>> ELSE <<a[i]>>) \o delete_from(a, idx, i + 1)

\* np.delete(a, idx): idx are 0-based positions
delete(a, idx) == delete_from(a, idx, 1)

\* ------------------------------------------------------------------ Nodes

\* Nodes.node_id_visiblity
node_id_visiblity(vis, node_id) ==
  LET i == searchsorted(vis, node_id)
  IN  i < Len(vis) /\ vis[i + 1] = node_id

\* Nodes.node_has_hidden_child
node_has_hidden_child(T, vis, id) ==
  \E c \in Range(Children(T, id)) : ~node_id_visiblity(vis, c)

\* Nodes.node_is_leaf
node_is_leaf(T, id) == T.left[id] = NoNode /\ T.right[id] = NoNode

RECURSIVE ChildrenOfAll(_, _)
\* the children of the queued nodes, in queue order
ChildrenOfAll(T, Q) ==
  IF Q = <<>> THEN <<>> ELSE Children(T, Head(Q)) \o ChildrenOfAll(T, Tail(Q))

RECURSIVE expand_update_unbounded(_, _, _, _, _)
\* a loop that queues the children whatever the depth
expand_update_unbounded(T, Q, depth, limit, update) ==
  IF Q = <<>> THEN update
  ELSE LET cs == ChildrenOfAll(T, Q)
       IN  expand_update_unbounded(T, cs, depth + 1, limit, update \o cs)

RECURSIVE expand_update(_, _, _, _, _)
\* expand_children's loop: one pass of the while per level of the queue
expand_update(T, Q, depth, limit, update) ==
  IF Q = <<>> THEN update
  ELSE LET cs == ChildrenOfAll(T, Q)
       IN  expand_update(T, IF depth < limit THEN cs ELSE <<>>, depth + 1, limit,
                         update \o cs)

\* Nodes.expand_children, with DISPLAY_DEPTH as limit
expand_children(T, vis, id, limit) ==
  merge(vis, expand_update(T, <<id>>, 1, limit, <<>>))

RECURSIVE hide_deletes(_, _, _, _)
\* hide_children's loop: the positions to delete
hide_deletes(T, vis, Q, deletes) ==
  IF Q = <<>> THEN deletes
  ELSE LET cs == Children(T, Head(Q))
           found == SelectSeq(cs, LAMBDA c : node_id_visiblity(vis, c))
       IN  hide_deletes(T, vis, Tail(Q) \o found,
                        deletes \cup {searchsorted(vis, c) : c \in Range(found)})

\* a hide that removes the visible children of the node and stops there
hide_children_one_level(T, vis, id) ==
  delete(vis, {searchsorted(vis, c) :
                 c \in {d \in Range(Children(T, id)) : node_id_visiblity(vis, d)}})

\* Nodes.hide_children
hide_children(T, vis, id) == delete(vis, hide_deletes(T, vis, <<id>>, {}))

\* a tap that does not ask whether the node is visible
on_tap_node_of_any_node(T, vis, node_id) ==
  IF node_id >= T.n \/ node_id < 0 THEN vis
  ELSE IF node_is_leaf(T, node_id) THEN vis
  ELSE IF node_has_hidden_child(T, vis, node_id)
       THEN expand_children(T, vis, node_id, DISPLAY_DEPTH)
       ELSE hide_children(T, vis, node_id)

\* Nodes.on_tap_node
on_tap_node(T, vis, node_id) ==
  IF node_id >= T.n \/ ~node_id_visiblity(vis, node_id) THEN vis
  ELSE IF node_is_leaf(T, node_id) THEN vis
  ELSE IF node_has_hidden_child(T, vis, node_id)
       THEN expand_children(T, vis, node_id, DISPLAY_DEPTH)
       ELSE hide_children(T, vis, node_id)

\* expand_all's inner for: a child is queued while tot is below the cap
expand_all_child(T, st, child, cap) ==
  IF st.tot < cap /\ child # NoNode
  THEN [st EXCEPT !.tot = @ + 1, !.Q = Append(@, child)]
  ELSE st

RECURSIVE expand_all_loop(_, _, _)
\* expand_all's while
expand_all_loop(T, st, cap) ==
  IF st.Q = <<>> \/ st.tot >= cap THEN st
  ELSE LET node == Head(st.Q)
           s0 == [Q |-> Tail(st.Q), elem |-> Append(st.elem, node), tot |-> st.tot]
           s1 == expand_all_child(T, s0, T.left[node], cap)
           s2 == expand_all_child(T, s1, T.right[node], cap)
       IN  expand_all_loop(T, s2, cap)

\* a return that lets a count equal to the cap pass as a tree that fitted
expand_all_return_at_cap(tot, cap) == tot <= cap

\* the return statement of expand_all
expand_all_return(tot, cap) == tot < cap

\* Nodes.expand_all with MAX_ELEMENTS = cap: the new array and the value returned
expand_all(T, cap) ==
  LET st == expand_all_loop(T, [Q |-> <<0>>, elem |-> <<>>, tot |-> 1], cap)
  IN  [vis |-> st.elem, ret |-> expand_all_return(st.tot, cap)]

\* ------------------------------------------------- the visibility engine

RECURSIVE SortedSeq(_)
\* the ids of S in ascending order
SortedSeq(S) ==
  IF S = {} THEN <<>>
  ELSE LET m == CHOOSE x \in S : \A y \in S : x <= y
       IN  <<m>> \o SortedSeq(S \ {m})

\* the valid visibility arrays of T: sorted, with the root, closed under parent
ValidArrays(T) ==
  {SortedSeq(S) : S \in {X \in SUBSET (0..(T.n - 1)) :
                            0 \in X /\ \A id \in X \ {0} : T.parent[id] \in X}}

\* arrays that lost their order can grow by repeats without end: an
\* operation is followed only while its result is no longer than this
MaxLen == MaxNodes

NoOp == [name |-> "", arg |-> 0, ret |-> FALSE, pre |-> <<>>]

VisInit ==
  /\ tree \in AllTrees
  /\ visiblity_state \in ValidArrays(tree)
  /\ last_op = NoOp
  /\ cached = <<>>
  /\ capacity = 1
  /\ holders = <<>>
  /\ pc = [t \in Threads |-> "idle"]
  /\ node_holder = [t \in Threads |-> 0]
  /\ key_of = <<>>
  /\ generated = <<>>
  /\ raised = <<>>
  /\ recency = <<>>
  /\ calls = 0
  /\ history = <<>>
  /\ Elements_cached = <<>>
  /\ viewers = <<>>

\* expand_children(node) on a visible node
ExpandChildren(id) ==
  /\ id \in Range(visiblity_state)
  /\ visiblity_state' = expand_children(tree, visiblity_state, id, DISPLAY_DEPTH)
  /\ Len(visiblity_state') <= MaxLen
  /\ last_op' = NoOp
  /\ UNCHANGED <<tree, buildVars, viewVars>>

\* hide_children(node)
HideChildren(id) ==
  /\ visiblity_state' = hide_children(tree, visiblity_state, id)
  /\ last_op' = NoOp
  /\ UNCHANGED <<tree, buildVars, viewVars>>

\* on a valid array: expand_children(node) on a visible node, then at once
\* hide_children(node)
ExpandThenHide(id) ==
  /\ last_op = NoOp
  /\ id \in Range(visiblity_state)
  /\ visiblity_state' =
       hide_children(tree, expand_children(tree, visiblity_state, id, DISPLAY_DEPTH), id)
  /\ last_op' = [name |-> "expand_then_hide", arg |-> id, ret |-> FALSE,
                 pre |-> visiblity_state]
  /\ UNCHANGED <<tree, buildVars, viewVars>>

\* on_tap_node(node_id), node_id possibly beyond the tree
OnTapNode(node_id) ==
  /\ visiblity_state' = on_tap_node(tree, visiblity_state, node_id)
  /\ Len(visiblity_state') <= MaxLen
  /\ last_op' = NoOp
  /\ UNCHANGED <<tree, buildVars, viewVars>>

\* expand_all() under a MAX_ELEMENTS of cap
ExpandAll(cap) ==
  /\ LET r == expand_all(tree, cap)
     IN  /\ visiblity_state' = r.vis
         /\ last_op' = [name |-> "expand_all", arg |-> cap, ret |-> r.ret, pre |-> <<>>]
  /\ UNCHANGED <<tree, buildVars, viewVars>>

VisNext ==
  \/ \E id \in 0..(tree.n - 1) : ExpandChildren(id)
  \/ \E id \in 0..(tree.n - 1) : HideChildren(id)
  \/ \E node_id \in 0..MaxNodes : OnTapNode(node_id)
  \/ \E cap \in 1..(MaxNodes + 1) : ExpandAll(cap)

VisSpec == VisInit /\ [][VisNext]_vars

\* every valid array of every tree, and one expand-then-hide on it
PairNext == \E id \in 0..(tree.n - 1) : ExpandThenHide(id)

PairSpec == VisInit /\ [][PairNext]_vars

\* ---------------------------------------------------------- a scripted run

\* no request for a build handle is under way
NoBuild ==
  /\ cached = <<>>
  /\ capacity = 1
  /\ holders = <<>>
  /\ pc = [t \in Threads |-> "idle"]
  /\ node_holder = [t \in Threads |-> 0]
  /\ key_of = <<>>
  /\ generated = <<>>
  /\ raised = <<>>
  /\ recency = <<>>
  /\ calls = 0

\* Nodes.__init__ without a stored state, before its expand: the array [0]
ScriptInit ==
  /\ tree \in AllTrees
  /\ visiblity_state = <<0>>
  /\ last_op = NoOp
  /\ history = <<>>
  /\ Elements_cached = <<>>
  /\ viewers = <<>>
  /\ NoBuild

\* first step of the run: the breadth-first expand of a visible node down to
\* limit levels
ScriptExpand(id, limit) ==
  /\ Len(history) = 0
  /\ id \in Range(visiblity_state)
  /\ visiblity_state' = expand_children(tree, visiblity_state, id, limit)
  /\ history' = Append(history, [name |-> "expand_children", arg |-> <<id, limit>>,
                                  vis |-> visiblity_state'])
  /\ UNCHANGED <<tree, last_op, Elements_cached, viewers, buildVars>>

\* second step: on_tap_node(node_id)
ScriptTap(node_id) ==
  /\ Len(history) = 1
  /\ visiblity_state' = on_tap_node(tree, visiblity_state, node_id)
  /\ history' = Append(history, [name |-> "on_tap_node", arg |-> <<node_id>>,
                                  vis |-> visiblity_state'])
  /\ UNCHANGED <<tree, last_op, Elements_cached, viewers, buildVars>>

\* third step: hide_children(node)
ScriptHide(id) ==
  /\ Len(history) = 2
  /\ visiblity_state' = hide_children(tree, visiblity_state, id)
  /\ history' = Append(history, [name |-> "hide_children", arg |-> <<id>>,
                                  vis |-> visiblity_state'])
  /\ UNCHANGED <<tree, last_op, Elements_cached, viewers, buildVars>>

ScriptNext ==
  \/ \E id \in 0..(tree.n - 1), limit \in 1..DISPLAY_DEPTH : ScriptExpand(id, limit)
  \/ \E node_id \in 0..MaxNodes : ScriptTap(node_id)
  \/ \E id \in 0..(tree.n - 1) : ScriptHide(id)

ScriptSpec == ScriptInit /\ [][ScriptNext]_vars

\* ------------------------------------------------ validation of a stored state

\* the trees of at most MaxSmallNodes nodes
SmallTrees == UNION {TreesOf(n) : n \in 1..MaxSmallNodes}

\* decode_visiblity of a stored string: any int32 array; here the arrays of
\* at most MaxInputLen ids, each an id of the tree, the first id beyond it,
\* or a negative number down to one below minus the node count
InputArrays(T) ==
  UNION {[1..l -> (0 - T.n - 1)..T.n] : l \in 0..MaxInputLen}

\* nodes[node_id] of a Python list: a negative index counts from the end
list_index(T, node_id) == IF node_id < 0 THEN node_id + T.n ELSE node_id

\* the body of the for loop of _validate_visiblity_state; stop is "break"
\* after the break, and the name of the exception after a raise
validate_step(T, st, node_id) ==
  IF st.stop # "" THEN st
  ELSE IF node_id >= T.n THEN [st EXCEPT !.stop = "break"]
  ELSE IF node_id < 0 - T.n THEN [st EXCEPT !.stop = "IndexError"]
  ELSE LET parent == T.parent[list_index(T, node_id)]
       IN  IF parent = NoNode THEN [st EXCEPT !.stop = "AttributeError"]
           ELSE IF parent \in st.in_valid
                THEN [st EXCEPT !.valid = Append(@, node_id),
                                !.in_valid = @ \cup {node_id}]
                ELSE st

RECURSIVE validate_loop(_, _, _)
validate_loop(T, st, xs) ==
  IF xs = <<>> THEN st
  ELSE validate_loop(T, validate_step(T, st, Head(xs)), Tail(xs))

\* tmp_visiblity_state[1:]
from_second(x) == IF x = <<>> THEN <<>> ELSE Tail(x)

\* a walk that starts at the first element instead of the second
validate_from_first(T, x) ==
  LET st == validate_loop(T, [valid |-> <<0>>, in_valid |-> {0}, stop |-> ""], x)
  IN  [raised |-> st.stop \in {"IndexError", "AttributeError"}, valid |-> st.valid]

\* Nodes._validate_visiblity_state: whether it raised, and the array returned
validate_visiblity_state(T, x) ==
  LET st == validate_loop(T, [valid |-> <<0>>, in_valid |-> {0}, stop |-> ""],
                          from_second(x))
  IN  [raised |-> st.stop \in {"IndexError", "AttributeError"}, valid |-> st.valid]

\* Nodes.__init__ with a stored state, after decode_visiblity
ValidateInit ==
  /\ tree \in SmallTrees
  /\ visiblity_state \in InputArrays(tree)
  /\ last_op = NoOp
  /\ history = <<>>
  /\ Elements_cached = <<>>
  /\ viewers = <<>>
  /\ NoBuild

\* self.visiblity_state = self._validate_visiblity_state(self.visiblity_state);
\* last_op.ret tells whether the call returned, last_op.pre is its input
ValidateVisiblityState ==
  /\ LET r == validate_visiblity_state(tree, visiblity_state)
     IN  /\ visiblity_state' = IF r.raised THEN visiblity_state ELSE r.valid
         /\ last_op' = [name |-> "validate", arg |-> 0, ret |-> ~r.raised,
                        pre |-> visiblity_state]
  /\ UNCHANGED <<tree, buildVars, viewVars>>

ValidateNext == ValidateVisiblityState

ValidateSpec == ValidateInit /\ [][ValidateNext]_vars

\* ------------------------------------------------------------- one tap

\* the arrays a Nodes instance of T can hold when a tap arrives: the valid
\* ones, and those an expand_children of a visible node leaves of them
TapArrays(T) ==
  ValidArrays(T)
  \cup {expand_children(T, a, id, DISPLAY_DEPTH) : <<a, id>> \in
          {p \in ValidArrays(T) \X (0..(T.n - 1)) : p[2] \in Range(p[1])}}

TapInit ==
  /\ tree \in AllTrees
  /\ visiblity_state \in TapArrays(tree)
  /\ last_op = NoOp
  /\ history = <<>>
  /\ Elements_cached = <<>>
  /\ viewers = <<>>
  /\ NoBuild

\* on_tap_node(node_id) with any integer from the client; last_op keeps the
\* id and the array before the tap
TapNode(node_id) ==
  /\ last_op = NoOp
  /\ visiblity_state' = on_tap_node(tree, visiblity_state, node_id)
  /\ last_op' = [name |-> "on_tap_node", arg |-> node_id, ret |-> FALSE,
                 pre |-> visiblity_state]
  /\ UNCHANGED <<tree, buildVars, viewVars>>

TapNext == \E node_id \in (0 - 1)..MaxNodes : TapNode(node_id)

TapSpec == TapInit /\ [][TapNext]_vars

\* ------------------------------------------------- ElementNode, Elements

RECURSIVE depth_of(_, _)
\* the depth argument with which Elements.__init__'s dfs reaches the node
depth_of(T, id) == IF T.parent[id] = NoNode THEN 0 ELSE 1 + depth_of(T, T.parent[id])

\* Elements.__init__: every node and every edge (named by its child) gets its
\* flag: visible down to depth DISPLAY_DEPTH - 1
Elements(T) ==
  [ node |-> [id \in 0..(T.n - 1) |-> depth_of(T, id) < DISPLAY_DEPTH],
    edge |-> [id \in 1..(T.n - 1) |-> depth_of(T, T.parent[id]) + 1 < DISPLAY_DEPTH] ]

RECURSIVE elements_dfs(_, _)
\* the order of self.elements: a node, then for each child its edge and its
\* subtree
elements_dfs(T, id) ==
  <<[kind |-> "node", id |-> id]>>
  \o (IF T.left[id] # NoNode
      THEN <<[kind |-> "edge", id |-> T.left[id]]>> \o elements_dfs(T, T.left[id])
      ELSE <<>>)
  \o (IF T.right[id] # NoNode
      THEN <<[kind |-> "edge", id |-> T.right[id]]>> \o elements_dfs(T, T.right[id])
      ELSE <<>>)

\* ElementNode.visible (getter)
visible(els, id) == els.node[id]

\* ElementNode.visible (setter): the node's flag and, if it has one, its
\* edge's flag
set_visible(els, id, value) ==
  [ node |-> [els.node EXCEPT ![id] = value],
    edge |-> IF id \in DOMAIN els.edge THEN [els.edge EXCEPT ![id] = value]
             ELSE els.edge ]

RECURSIVE set_child_visible_dfs(_, _, _, _)
\* the dfs of ElementNode.set_child_visible
set_child_visible_dfs(T, els, id, depth) ==
  IF depth >= DISPLAY_DEPTH THEN els
  ELSE LET e0 == set_visible(els, id, TRUE)
           e1 == IF T.left[id] # NoNode
                 THEN set_child_visible_dfs(T, e0, T.left[id], depth + 1) ELSE e0
       IN  IF T.right[id] # NoNode
           THEN set_child_visible_dfs(T, e1, T.right[id], depth + 1) ELSE e1

\* ElementNode.set_child_visible
set_child_visible(T, els, id) == set_child_visible_dfs(T, els, id, 0)

RECURSIVE set_child_hidden_dfs(_, _, _)
\* the dfs of ElementNode.set_child_hidden: a child that is not hidden is
\* hidden and walked, a hidden child is passed over with its subtree
set_child_hidden_dfs(T, els, id) ==
  LET e1 == IF T.left[id] # NoNode /\ els.node[T.left[id]]
            THEN set_child_hidden_dfs(T, set_visible(els, T.left[id], FALSE), T.left[id])
            ELSE els
  IN  IF T.right[id] # NoNode /\ e1.node[T.right[id]]
      THEN set_child_hidden_dfs(T, set_visible(e1, T.right[id], FALSE), T.right[id])
      ELSE e1

\* ElementNode.set_child_hidden
set_child_hidden(T, els, id) == set_child_hidden_dfs(T, els, id)

\* Elements.reset
reset(T, els) == set_child_visible(T, set_child_hidden(T, els, 0), 0)

\* one element's flag written by set_visiblity
set_element(els, el, value) ==
  IF el.kind = "node" THEN [els EXCEPT !.node[el.id] = value]
  ELSE [els EXCEPT !.edge[el.id] = value]

RECURSIVE set_visiblity_zip(_, _, _, _)
set_visiblity_zip(els, elements, visiblity, i) ==
  IF i > Len(elements) \/ i > Len(visiblity) THEN els
  ELSE set_visiblity_zip(set_element(els, elements[i], visiblity[i]),
                         elements, visiblity, i + 1)

\* Elements.set_visiblity: zip(self.elements, visiblity); the string is given
\* as the sequence of its characters being "1"
set_visiblity(T, els, visiblity) ==
  set_visiblity_zip(els, elements_dfs(T, 0), visiblity, 1)

\* Elements.get_visiblity, as the sequence of its characters being "1"
get_visiblity(T, els) ==
  LET elements == elements_dfs(T, 0)
  IN  [i \in 1..Len(elements) |->
         IF elements[i].kind = "node" THEN els.node[elements[i].id]
         ELSE els.edge[elements[i].id]]

\* the strings a client can send: at most MaxTokenLen characters
Tokens == UNION {[1..l -> BOOLEAN] : l \in 0..MaxTokenLen}

\* Elements.get has built the view of the tree
EagerInit ==
  /\ tree \in AllTrees
  /\ Elements_cached = <<Elements(tree)>>
  /\ visiblity_state = <<0>>
  /\ last_op = NoOp
  /\ history = <<>>
  /\ viewers = <<>>
  /\ NoBuild

SetChildVisible(id) ==
  /\ Elements_cached' = <<set_child_visible(tree, Elements_cached[1], id)>>
  /\ last_op' = NoOp
  /\ UNCHANGED <<tree, visiblity_state, history, viewers, buildVars>>

\* last_op keeps the node of a set_child_hidden
SetChildHidden(id) ==
  /\ Elements_cached' = <<set_child_hidden(tree, Elements_cached[1], id)>>
  /\ last_op' = [name |-> "set_child_hidden", arg |-> id, ret |-> FALSE, pre |-> <<>>]
  /\ UNCHANGED <<tree, visiblity_state, history, viewers, buildVars>>

Reset ==
  /\ Elements_cached' = <<reset(tree, Elements_cached[1])>>
  /\ last_op' = [name |-> "reset", arg |-> 0, ret |-> FALSE, pre |-> <<>>]
  /\ UNCHANGED <<tree, visiblity_state, history, viewers, buildVars>>

SetVisiblity(visiblity) ==
  /\ Elements_cached' = <<set_visiblity(tree, Elements_cached[1], visiblity)>>
  /\ last_op' = NoOp
  /\ UNCHANGED <<tree, visiblity_state, history, viewers, buildVars>>

EagerNext ==
  \/ \E id \in 0..(tree.n - 1) : SetChildVisible(id)
  \/ \E id \in 0..(tree.n - 1) : SetChildHidden(id)
  \/ Reset

EagerSpec == EagerInit /\ [][EagerNext]_vars

EagerTokenNext ==
  \/ \E id \in 0..(tree.n - 1) : SetChildVisible(id)
  \/ \E id \in 0..(tree.n - 1) : SetChildHidden(id)
  \/ Reset
  \/ \E visiblity \in Tokens : SetVisiblity(visiblity)

EagerTokenSpec == EagerInit /\ [][EagerTokenNext]_vars

\* ------------------------------------------------------------ two viewers

\* one viewer's session per request thread
Viewers == Threads

\* the classes of a node of the sparse view
nodes_classes(T, vis, id) ==
  IF node_is_leaf(T, id) THEN "is_leaf"
  ELSE IF node_has_hidden_child(T, vis, id) THEN "has_hidden_child"
  ELSE ""

RECURSIVE nodes_visible_elements_from(_, _, _)
nodes_visible_elements_from(T, vis, i) ==
  IF i > Len(vis) THEN <<>>
  ELSE <<[kind |-> "node", id |-> vis[i], classes |-> nodes_classes(T, vis, vis[i])]>>
       \o (IF T.parent[vis[i]] # NoNode
           THEN <<[kind |-> "edge", id |-> vis[i], classes |-> ""]>> ELSE <<>>)
       \o nodes_visible_elements_from(T, vis, i + 1)

\* Nodes.visible_elements: per visible id the node and, below the root, the
\* edge into it (labels left out)
nodes_visible_elements(T, vis) == nodes_visible_elements_from(T, vis, 1)

\* ElementNode.has_hidden_child
has_hidden_child(T, els, id) ==
  \/ (T.left[id] # NoNode /\ ~visible(els, T.left[id]))
  \/ (T.right[id] # NoNode /\ ~visible(els, T.right[id]))

\* ElementNode.update_classes
update_classes(T, els, id) ==
  IF node_is_leaf(T, id) THEN "is_leaf"
  ELSE IF has_hidden_child(T, els, id) THEN "has_hidden_child"
  ELSE ""

\* Elements.visible_elements: the elements flagged visible, in the order of
\* self.elements, the nodes with their classes (labels left out)
elements_visible_elements(T, els) ==
  LET elements == elements_dfs(T, 0)
      all == [i \in 1..Len(elements) |->
                [kind |-> elements[i].kind, id |-> elements[i].id,
                 classes |-> IF elements[i].kind = "node"
                             THEN update_classes(T, els, elements[i].id) ELSE ""]]
  IN  SelectSeq(all, LAMBDA el : IF el.kind = "node" THEN els.node[el.id]
                                 ELSE els.edge[el.id])

\* Elements.get under cached_lock: the table after the call (the instance is
\* built when the key is absent)
Elements_get(T, c) == IF c = <<>> THEN <<Elements(T)>> ELSE c

\* each viewer holds a Nodes instance built without a stored state (the root
\* expanded), and no Elements instance yet
ViewerInit ==
  /\ tree \in SmallTrees
  /\ viewers = [v \in Viewers |->
                  [visiblity_state |-> expand_children(tree, <<0>>, 0, DISPLAY_DEPTH),
                   elements |-> 0]]
  /\ Elements_cached = <<>>
  /\ visiblity_state = <<0>>
  /\ last_op = NoOp
  /\ history = <<>>
  /\ NoBuild

\* what a step of a viewer records: the viewer it was made for
MadeFor(v) == [name |-> "viewer", arg |-> v, ret |-> FALSE, pre |-> <<>>]

\* viewer v taps a node of its sparse view
ViewerOnTapNode(v, node_id) ==
  /\ viewers' = [viewers EXCEPT ![v].visiblity_state =
                   on_tap_node(tree, @, node_id)]
  /\ Len(viewers'[v].visiblity_state) <= MaxLen
  /\ last_op' = MadeFor(v)
  /\ UNCHANGED <<tree, visiblity_state, history, Elements_cached, buildVars>>

\* viewer v asks for the eager view of the key: Elements.get
ViewerElementsGet(v) ==
  /\ viewers[v].elements = 0
  /\ Elements_cached' = Elements_get(tree, Elements_cached)
  /\ viewers' = [viewers EXCEPT ![v].elements = Len(Elements_cached')]
  /\ last_op' = MadeFor(v)
  /\ UNCHANGED <<tree, visiblity_state, history, buildVars>>

\* viewer v reveals below a node of the view it got
ViewerSetChildVisible(v, id) ==
  /\ viewers[v].elements # 0
  /\ Elements_cached' = [Elements_cached EXCEPT ![viewers[v].elements] =
                           set_child_visible(tree, @, id)]
  /\ last_op' = MadeFor(v)
  /\ UNCHANGED <<tree, visiblity_state, history, viewers, buildVars>>

\* viewer v hides below a node of the view it got
ViewerSetChildHidden(v, id) ==
  /\ viewers[v].elements # 0
  /\ Elements_cached' = [Elements_cached EXCEPT ![viewers[v].elements] =
                           set_child_hidden(tree, @, id)]
  /\ last_op' = MadeFor(v)
  /\ UNCHANGED <<tree, visiblity_state, history, viewers, buildVars>>

ViewerNext ==
  \E v \in Viewers :
    \/ \E node_id \in 0..MaxSmallNodes : ViewerOnTapNode(v, node_id)
    \/ ViewerElementsGet(v)
    \/ \E id \in 0..(tree.n - 1) : ViewerSetChildVisible(v, id)
    \/ \E id \in 0..(tree.n - 1) : ViewerSetChildHidden(v, id)

ViewerSpec == ViewerInit /\ [][ViewerNext]_vars

\* ------------------------------------------------ claims on the build cache

Handles == 1..Len(holders)

CallersOf(h) == {t \in Threads : node_holder[t] = h /\ pc[t] # "idle"}

InCache(h) == \E i \in 1..Len(cached) : cached[i].holder = h

\* C1: on a handle whose generator never failed, the generator is called at
\* most once, and exactly once as soon as every caller of the handle is back
\* from initialize or wait_until_initialized.
C1_GenerationOnce ==
  \A h \in Handles :
    raised[h] = 0 =>
      /\ generated[h] <= 1
      /\ (CallersOf(h) # {} /\ \A t \in CallersOf(h) : pc[t] \in Returned)
            => generated[h] = 1

\* two callers of one handle are back, and one generation was run
C1_Witness ==
  \E h \in Handles :
    /\ raised[h] = 0
    /\ generated[h] = 1
    /\ Cardinality({t \in CallersOf(h) : pc[t] \in Returned}) >= 2
    /\ \E t \in CallersOf(h) : pc[t] = "wait_done"

\* C2: a caller that lost the claim is back from wait_until_initialized only
\* when the complete flag is set and the built tree is there.
C2_WaiterSeesBuiltTree ==
  \A t \in Threads :
    pc[t] = "wait_done" =>
      /\ holders[node_holder[t]].initialized_flag
      /\ holders[node_holder[t]].nodes

\* C3: a handle that is claimed and not yet complete is in the cache table.
C3_NoEvictionDuringBuild ==
  \A h \in Handles :
    (holders[h].initialize_scheduled /\ ~holders[h].initialized_flag)
      => InCache(h)

\* the step in which a failed initialize ends: the lock is released and the
\* error reaches the claimant
InitializeEndsRaising(t) == pc[t] = "raise_unlock" /\ pc'[t] = "init_raised"

\* C4 as stated: when the claimant's failed initialize ends, the claim flag is
\* clear, the complete flag is unset, the lock is free, and no waiter got the
\* error.
C4_Original ==
  [][\A t \in Threads :
       InitializeEndsRaising(t) =>
         LET h == holders'[node_holder[t]]
         IN  /\ ~h.initialize_scheduled
             /\ ~h.initialized_flag
             /\ ~h.lock
             /\ \A u \in Threads \ {t} :
                  node_holder[u] = node_holder[t] => pc'[u] # "init_raised"]_vars

\* C4 as amended: when the claimant's failed initialize ends, the complete
\* flag is unset, no result is stored, the lock is free, only claimants ever
\* got an error, and the claim flag is clear unless another caller has won
\* the claim since the reset and now waits for the lock to run generation.
C4_RetryableAfterFailure ==
  [][\A t \in Threads :
       InitializeEndsRaising(t) =>
         LET h == holders'[node_holder[t]]
         IN  /\ ~h.initialized_flag
             /\ ~h.nodes
             /\ ~h.lock
             /\ raised'[node_holder[t]] >= 1
             /\ \A u \in Threads : pc'[u] = "init_raised" => raised'[node_holder[u]] >= 1
             /\ \/ ~h.initialize_scheduled
                \/ \E u \in Threads \ {t} :
                     /\ node_holder[u] = node_holder[t]
                     /\ pc'[u] = "init_lock"]_vars

\* a claimant got the error and a later caller ran generation again on the
\* same handle
C4_Witness ==
  \E t \in Threads :
    /\ pc[t] = "init_raised"
    /\ generated[node_holder[t]] = 2
    /\ raised[node_holder[t]] = 1
    /\ holders[node_holder[t]].initialized_flag

KeysOf(c) == [i \in 1..Len(c) |-> c[i].key]

Items(c) == {c[i] : i \in 1..Len(c)}

Suffix(r, n) == SubSeq(r, Len(r) - n + 1, Len(r))

\* the entry of the table whose last acquire is oldest
Oldest(c, r) ==
  CHOOSE e \in Items(c) :
    \A f \in Items(c) :
      (CHOOSE i \in 1..Len(r) : r[i] = e.key) <= (CHOOSE i \in 1..Len(r) : r[i] = f.key)

\* C5: a get_node_holder call on a present key returns its handle, makes it
\* the most recently used and removes nothing; on an absent key with the
\* table full it removes exactly the entry acquired longest ago; the table
\* never holds more than capacity entries and is ordered by last acquire.
C5_LruStep ==
  [][\A t \in Threads :
       (pc[t] = "idle" /\ pc'[t] = "claim") =>
         LET k == recency'[Len(recency')]
             new == [key |-> k, holder |-> node_holder'[t]]
         IN  /\ Len(cached') <= capacity
             /\ KeysOf(cached') = Suffix(recency', Len(cached'))
             /\ cached'[Len(cached')] = new
             /\ HasKey(cached, k) =>
                  /\ new \in Items(cached)
                  /\ Items(cached') = Items(cached)
                  /\ Len(cached') = Len(cached)
                  /\ holders' = holders
             /\ (~HasKey(cached, k) /\ Len(cached) >= capacity) =>
                  /\ Items(cached') = (Items(cached) \ {Oldest(cached, recency)}) \cup {new}
                  /\ Len(cached') = Len(cached)
             /\ (~HasKey(cached, k) /\ Len(cached) < capacity) =>
                  /\ Items(cached') = Items(cached) \cup {new}
                  /\ Len(cached') = Len(cached) + 1]_vars

\* keys 1, 2, 1, 3 at capacity 2: key 2, not the first inserted key 1, is gone
C5_Witness ==
  /\ capacity = 2
  /\ calls = 4
  /\ recency = <<2, 1, 3>>
  /\ KeysOf(cached) = <<1, 3>>
  /\ cached[1].holder = 1

\* C6: a get_node_holder call on an absent key (never seen or evicted)
\* returns a handle never returned before, with claim and complete flags
\* clear, progress (0, 1) and no generation run on it; and a handle is
\* complete only after a generation run on that very handle.
C6_FreshHandleAfterEviction ==
  [][/\ \A t \in Threads :
          (pc[t] = "idle" /\ pc'[t] = "claim" /\ ~HasKey(cached, recency'[Len(recency')])) =>
            LET h == node_holder'[t]
            IN  /\ h \notin Handles
                /\ ~holders'[h].initialize_scheduled
                /\ ~holders'[h].initialized_flag
                /\ ~holders'[h].nodes
                /\ ~holders'[h].lock
                /\ get_progress(holders'[h].progress) = <<0, 1>>
                /\ generated'[h] = 0
                /\ key_of'[h] = recency'[Len(recency')]
     /\ \A h \in 1..Len(holders') :
          holders'[h].initialized_flag => generated'[h] >= 1]_vars

\* capacity 1, key 1 built, key 2 built, key 1 built again: two generation
\* calls for key 1, on two handles
C6_Witness ==
  /\ capacity = 1
  /\ key_of = <<1, 2, 1>>
  /\ generated = <<1, 1, 1>>
  /\ holders[1].initialized_flag /\ holders[3].initialized_flag
  /\ get_progress(holders[1].progress)[1] = MaxProgress

\* -------------------------------------------- claims on the visibility set

StrictlyAscending(a) == \A i \in 1..(Len(a) - 1) : a[i] < a[i + 1]

RECURSIVE Ancestors(_, _)
\* the ids on the way from id's parent up to the root
Ancestors(T, id) ==
  IF T.parent[id] = NoNode THEN {} ELSE {T.parent[id]} \cup Ancestors(T, T.parent[id])

\* the proper descendants of id
Descendants(T, id) == {d \in 0..(T.n - 1) : id \in Ancestors(T, d)}

\* C7: every non-root id of the visibility array has its parent id in the
\* array.
C7_Connectivity ==
  \A id \in Range(visiblity_state) :
    id # 0 => tree.parent[id] \in Range(visiblity_state)

\* C8: the visibility array is strictly ascending, and the binary-search
\* membership test answers true exactly for the ids in the array.
C8_SortedUnique ==
  /\ StrictlyAscending(visiblity_state)
  /\ \A id \in 0..(tree.n - 1) :
       node_id_visiblity(visiblity_state, id) <=> id \in Range(visiblity_state)

\* C9: after expand_all under a cap, the array is no longer than the cap, and
\* true was returned only if the tree has at most cap nodes.
C9_ExpandAllWithinCap ==
  last_op.name = "expand_all" =>
    /\ Len(visiblity_state) <= last_op.arg
    /\ last_op.ret => tree.n <= last_op.arg

\* expand_all returned true on a tree of several nodes and shows all of it
C9_Witness ==
  /\ last_op.name = "expand_all"
  /\ last_op.ret
  /\ tree.n >= 3
  /\ Range(visiblity_state) = 0..(tree.n - 1)

ScenarioTree(T) ==
  /\ T.n = 4
  /\ T.left[0] = 1 /\ T.right[0] = 2
  /\ T.parent[3] = 2

\* the first n steps of the run are those of the scenario
ScenarioSteps(n) ==
  /\ Len(history) >= n
  /\ n >= 1 => history[1].arg = <<0, 1>>
  /\ n >= 2 => history[2].arg = <<2>>
  /\ n >= 3 => history[3].arg = <<0>>

\* C11: on the tree 0 -> (1, 2), 2 -> 3, from the array [0]: the expand of
\* node 0 with depth limit 1 gives [0, 1, 2], on_tap_node(2) then gives
\* [0, 1, 2, 3], and hide_children of node 0 then gives [0].
C11_Scenario ==
  ScenarioTree(tree) =>
    /\ ScenarioSteps(1) => history[1].vis = <<0, 1, 2>>
    /\ ScenarioSteps(2) => history[2].vis = <<0, 1, 2, 3>>
    /\ ScenarioSteps(3) => history[3].vis = <<0>>

\* the three steps of the scenario were run on its tree
C11_Witness ==
  /\ ScenarioTree(tree)
  /\ ScenarioSteps(3)
  /\ Len(history) = 3
  /\ visiblity_state = <<0>>
  /\ history[2].vis = <<0, 1, 2, 3>>

\* C12: the array returned by _validate_visiblity_state is returned as it is
\* when it is validated again.
C12_ValidateIdempotent ==
  (last_op.name = "validate" /\ last_op.ret) =>
    validate_visiblity_state(tree, visiblity_state)
      = [raised |-> FALSE, valid |-> visiblity_state]

\* a validation dropped ids of its input and kept others
C12_Witness ==
  /\ last_op.name = "validate"
  /\ last_op.ret
  /\ Len(visiblity_state) >= 2
  /\ Len(last_op.pre) > Len(visiblity_state)

\* C13: _validate_visiblity_state returns on every input array, and the
\* array it returns starts with the root id 0, is strictly ascending, holds
\* ids of the tree only, and holds the parent of every non-root id in it.
C13_ValidateAlwaysValid ==
  last_op.name = "validate" =>
    /\ last_op.ret
    /\ visiblity_state[1] = 0
    /\ StrictlyAscending(visiblity_state)
    /\ \A id \in Range(visiblity_state) :
         /\ id \in 0..(tree.n - 1)
         /\ id # 0 => tree.parent[id] \in Range(visiblity_state)

\* C14: on_tap_node(node_id) leaves the array as it was when node_id is at
\* or beyond the node count, or is not in the array, or is a leaf.
C14_TapNoOp ==
  last_op.name = "on_tap_node" =>
    LET node_id == last_op.arg
    IN  ( \/ node_id >= tree.n
          \/ node_id \notin Range(last_op.pre)
          \/ (node_id \in 0..(tree.n - 1) /\ node_is_leaf(tree, node_id)) )
        => visiblity_state = last_op.pre

\* a tap on a hidden node that has children, and whose parent is visible,
\* left the array as it was
C14_Witness ==
  /\ last_op.name = "on_tap_node"
  /\ last_op.arg \in 1..(tree.n - 1)
  /\ last_op.arg \notin Range(last_op.pre)
  /\ tree.parent[last_op.arg] \in Range(last_op.pre)
  /\ ~node_is_leaf(tree, last_op.arg)
  /\ visiblity_state = last_op.pre

\* C15: after reset, the flags of all nodes and edges are those of the
\* freshly built view.
C15_ResetRestoresFreshView ==
  last_op.name = "reset" => Elements_cached[1] = Elements(tree)

\* what a render returns for viewer w: of its sparse view, and of the eager
\* view it got
RenderFor(w) ==
  [ sparse |-> nodes_visible_elements(tree, viewers[w].visiblity_state),
    eager |-> IF viewers[w].elements = 0 THEN <<>>
              ELSE elements_visible_elements(tree, Elements_cached[viewers[w].elements]) ]

\* C16: a step made for one viewer leaves what a render returns for every
\* other viewer as it was, in the sparse view and in the eager view.
C16_PerViewerVisibility ==
  [][\A w \in Viewers :
       (last_op'.name = "viewer" /\ last_op'.arg # w) => RenderFor(w)' = RenderFor(w)]_vars

\* the same for the sparse view alone
C16_SparsePerViewer ==
  [][\A w \in Viewers :
       (last_op'.name = "viewer" /\ last_op'.arg # w) =>
          RenderFor(w).sparse' = RenderFor(w).sparse]_vars

\* the positions of a caller inside a generation run: decision_tree is
\* running, or has raised and the except branch is under way
InGeneration == {"generating", "except", "raise_unlock"}

\* C17: while the complete flag of a handle is set, a generation run on the
\* handle has returned (the last one called, all earlier ones having raised),
\* its result is stored, and no generation is running or ending in a raise
\* on the handle.
C17_CompleteOnlyAfterGeneration ==
  \A h \in Handles :
    holders[h].initialized_flag =>
      /\ holders[h].nodes
      /\ generated[h] = raised[h] + 1
      /\ \A t \in Threads : node_holder[t] = h => pc[t] \notin InGeneration

\* a handle is complete after a generation that raised and a second one
\* that returned
C17_Witness ==
  \E h \in Handles :
    /\ holders[h].initialized_flag
    /\ holders[h].nodes
    /\ raised[h] = 1
    /\ generated[h] = 2

\* C18: a get_node_holder call returns the handle stored for its key; when
\* the key is present it constructs no NodeHolder and returns the handle
\* that every caller whose handle for the key is still in the table holds;
\* the table never holds two entries of one key, and a handle that left the
\* table does not come back.
C18_OneHandlePerKey ==
  [][/\ \A t \in Threads :
          (pc[t] = "idle" /\ pc'[t] = "claim") =>
            LET k == recency'[Len(recency')]
                h == node_holder'[t]
            IN  /\ key_of'[h] = k
                /\ [key |-> k, holder |-> h] \in Items(cached')
                /\ HasKey(cached, k) =>
                     /\ h = cached[IndexOf(cached, k)].holder
                     /\ holders' = holders
                /\ \A u \in Threads \ {t} :
                     ( /\ node_holder[u] # 0
                       /\ key_of[node_holder[u]] = k
                       /\ InCache(node_holder[u]) ) => h = node_holder[u]
     /\ \A i, j \in 1..Len(cached') : cached'[i].key = cached'[j].key => i = j
     /\ \A h \in Handles :
          ~InCache(h) => ~(\E i \in 1..Len(cached') : cached'[i].holder = h)]_vars

\* two callers raced on the first access of a key and hold the one handle
\* constructed for it
C18_Witness ==
  /\ Len(holders) = 1
  /\ \A t \in Threads : node_holder[t] = 1 /\ pc[t] = "claim"
  /\ InCache(1)

\* the ids of x before the first one at or beyond the node count of T
BeforeOutOfRange(T, x) ==
  LET stops == {i \in 1..Len(x) : x[i] >= T.n}
  IN  IF stops = {} THEN x
      ELSE SubSeq(x, 1, (CHOOSE i \in stops : \A j \in stops : i <= j) - 1)

RECURSIVE KeptInOrder(_, _, _)
\* of the ids xs, in their order, those whose parent id is in accepted or
\* was kept before them
KeptInOrder(T, xs, accepted) ==
  IF xs = <<>> THEN <<>>
  ELSE LET id == Head(xs)
           keep == /\ id \in 1..(T.n - 1)
                   /\ T.parent[id] \in accepted
       IN  IF keep THEN <<id>> \o KeptInOrder(T, Tail(xs), accepted \cup {id})
           ELSE KeptInOrder(T, Tail(xs), accepted)

\* C19: _validate_visiblity_state returns a leading 0 followed by, of the
\* input ids after the first and before the first id at or beyond the node
\* count, exactly those whose parent id was accepted before them, in their
\* input order.
C19_StopAtFirstOutOfRange ==
  last_op.name = "validate" =>
    /\ last_op.ret
    /\ visiblity_state
         = <<0>> \o KeptInOrder(tree, BeforeOutOfRange(tree, from_second(last_op.pre)), {0})

\* the same, on the inputs whose ids after the first are all positive
C19_OnPositiveIds ==
  (last_op.name = "validate" /\ \A i \in 2..Len(last_op.pre) : last_op.pre[i] >= 1) =>
    /\ last_op.ret
    /\ visiblity_state
         = <<0>> \o KeptInOrder(tree, BeforeOutOfRange(tree, from_second(last_op.pre)), {0})

\* C20: in the eager view a non-root node is flagged visible only if its
\* parent is, every edge's flag is that of its child node, and after
\* set_child_hidden on a node no proper descendant of the node is visible.
C20_EagerConnectivity ==
  LET els == Elements_cached[1]
  IN  /\ \A id \in 1..(tree.n - 1) :
           /\ els.node[id] => els.node[tree.parent[id]]
           /\ els.edge[id] = els.node[id]
      /\ last_op.name = "set_child_hidden" =>
           \A d \in Descendants(tree, last_op.arg) : ~els.node[d]

====
